---- MODULE Spec2Model ----
(***************************************************************************)
(* A model of the domPanZoom class (src/src/core/domPanZoom.js): the       *)
(* (zoom, x, y) state, the option record, the pointer cache and the        *)
(* gesture handlers, with every public method and every event handler as   *)
(* one action.                                                             *)
(*                                                                         *)
(* JavaScript numbers are modelled as exact rationals <<n, d>> in lowest   *)
(* terms (d > 0) together with the IEEE special values the code can        *)
(* produce: NaN, +Infinity, -Infinity.  The value `undefined` is kept      *)
(* apart (a field that was never assigned); arithmetic on it gives NaN, as *)
(* ToNumber(undefined) does.  Rounding of finite results is not modelled.  *)
(***************************************************************************)
EXTENDS Integers, Sequences, FiniteSets, TLC

\* ------------------------------------------------------------ JS numbers

NaN == <<0, 0>>
PInf == <<1, 0>>
NInf == <<-1, 0>>
Undef == <<0, -1>>

Abs(i) == IF i < 0 THEN -i ELSE i
Sgn(i) == IF i < 0 THEN -1 ELSE IF i > 0 THEN 1 ELSE 0

RECURSIVE Gcd(_, _)
Gcd(a, b) == IF b = 0 THEN a ELSE Gcd(b, a % b)

\* n/d for a common divisor g of n and d, with a positive denominator.
Reduce(n, d, g) ==
    IF d < 0 THEN <<(-n) \div g, (-d) \div g>> ELSE <<n \div g, d \div g>>

\* The rational n/d (d # 0) in lowest terms.
Rat(n, d) == IF d = 1 THEN <<n, 1>> ELSE Reduce(n, d, Gcd(Abs(n), Abs(d)))

Num(i) == <<i, 1>>

IsFinite(a) == a[2] > 0
IsNaN(a) == a[2] <= 0 /\ a[1] = 0
IsInf(a) == a[2] = 0 /\ a[1] # 0
IsUndef(a) == a[2] < 0
\* The sign of a value that is not NaN: -1, 0 or 1.
SignOf(a) == Sgn(a[1])
InfOf(s) == IF s < 0 THEN NInf ELSE PInf

\* a + b
Add(a, b) ==
    IF IsFinite(a) /\ IsFinite(b)
    THEN Rat(a[1] * b[2] + b[1] * a[2], a[2] * b[2])
    ELSE IF IsNaN(a) \/ IsNaN(b) THEN NaN
    ELSE IF IsInf(a) /\ IsInf(b) THEN (IF a = b THEN a ELSE NaN)
    ELSE IF IsInf(a) THEN a
    ELSE b

\* -a
Neg(a) == IF IsNaN(a) THEN NaN ELSE <<-a[1], a[2]>>

\* a - b
Sub(a, b) == Add(a, Neg(b))

\* a * b
Mul(a, b) ==
    IF IsFinite(a) /\ IsFinite(b) THEN Rat(a[1] * b[1], a[2] * b[2])
    ELSE IF IsNaN(a) \/ IsNaN(b) THEN NaN
    ELSE IF SignOf(a) * SignOf(b) = 0 THEN NaN
    ELSE InfOf(SignOf(a) * SignOf(b))

\* a / b, the zero divisor being +0 (every divisor of the program that can
\* be zero is a clientWidth/clientHeight or a non-negative product).
Div(a, b) ==
    IF IsFinite(a) /\ IsFinite(b) /\ b[1] # 0 THEN Rat(a[1] * b[2], a[2] * b[1])
    ELSE IF IsNaN(a) \/ IsNaN(b) THEN NaN
    ELSE IF IsInf(a) /\ IsInf(b) THEN NaN
    ELSE IF IsInf(a) THEN InfOf(SignOf(a) * (IF SignOf(b) < 0 THEN -1 ELSE 1))
    ELSE IF IsInf(b) THEN Num(0)
    ELSE IF a[1] = 0 THEN NaN
    ELSE InfOf(SignOf(a))

\* a < b: false as soon as one side is NaN
Lt(a, b) ==
    IF IsFinite(a) /\ IsFinite(b) THEN a[1] * b[2] < b[1] * a[2]
    ELSE IF IsNaN(a) \/ IsNaN(b) THEN FALSE
    ELSE a # b /\ (a = NInf \/ b = PInf)

Gt(a, b) == Lt(b, a)
Le(a, b) == ~IsNaN(a) /\ ~IsNaN(b) /\ ~Lt(b, a)

MathMin(a, b) == IF IsNaN(a) \/ IsNaN(b) THEN NaN ELSE IF Lt(b, a) THEN b ELSE a
MathMax(a, b) == IF IsNaN(a) \/ IsNaN(b) THEN NaN ELSE IF Lt(a, b) THEN b ELSE a
MathAbs(a) == IF IsNaN(a) THEN NaN ELSE <<Abs(a[1]), a[2]>>
MathSign(a) == IF IsNaN(a) THEN NaN ELSE Num(SignOf(a))

RECURSIVE ISqrtFrom(_, _)
ISqrtFrom(n, r) == IF (r + 1) * (r + 1) > n THEN r ELSE ISqrtFrom(n, r + 1)
\* Math.hypot(a, b): exact when a or b is 0 (the program's calls have a = 0),
\* otherwise rounded down to a multiple of the common denominator's unit.
MathHypot(a, b) ==
    IF IsInf(a) \/ IsInf(b) THEN PInf
    ELSE IF IsNaN(a) \/ IsNaN(b) THEN NaN
    ELSE IF a[1] = 0 THEN MathAbs(b)
    ELSE IF b[1] = 0 THEN MathAbs(a)
    ELSE Rat(ISqrtFrom(a[1] * a[1] * b[2] * b[2] + b[1] * b[1] * a[2] * a[2], 0),
             a[2] * b[2])

Half == Rat(1, 2)
Hundred == Num(100)

\* ------------------------------------------------------------ state

VARIABLES
    phase,          \* "new": before the constructor ran; "ready": constructed;
                    \* "failed": the constructor threw
    options,        \* this.options (minZoom is rewritten by init)
    wrapper,        \* the wrapper element's measures, or NoElement
    container,      \* the panZoom element's measures, or NoElement
    zoom, x, y,     \* this.zoom, this.x, this.y
    transition,     \* whether the container's style.transition is set
    evCache,        \* this.evCache: the pointer events being tracked
    zoomCache, xCache, yCache,  \* this.zoomCache, this.xCache, this.yCache
    pinchDiffCache, \* this.pinchDiffCache
    touchEventsCenterCache,     \* this.touchEventsCenterCache
    blockPan,       \* this.blockPan: "undefined", "true" or "false"
    previousEvent,  \* this.previousEvent, or NoEvent
    moveListener,   \* whether setPositionEvent is attached to the document
    fired,          \* the notifications the last operation raised, in order
    last,           \* the last operation: its name, and how it ended
    input,          \* history: the arguments of the last call or wheel event
    pinchEnded,     \* history: a pointer left a cache of two entries since the
                    \* last mousedown / touchstart
    ops             \* the number of operations performed so far

vars == <<phase, options, wrapper, container, zoom, x, y, transition, evCache,
          zoomCache, xCache, yCache, pinchDiffCache, touchEventsCenterCache,
          blockPan, previousEvent, moveListener, fired, last, input, pinchEnded,
          ops>>

gestureVars == <<evCache, zoomCache, xCache, yCache, pinchDiffCache,
                 touchEventsCenterCache, blockPan, previousEvent, moveListener,
                 pinchEnded>>

\* An option that does not resolve to an element (getWrapper/getContainer
\* return null).
NoElement == [present |-> FALSE, clientWidth |-> 0, clientHeight |-> 0]
Element(w, h) == [present |-> TRUE, clientWidth |-> w, clientHeight |-> h]

\* No event object (null or undefined).
NoEvent ==
    [pointerId |-> 0, pageX |-> Undef, pageY |-> Undef, clientX |-> Undef,
     clientY |-> Undef, target |-> [offsetLeft |-> Undef, offsetTop |-> Undef]]
\* An input event of pointer id at page position (px, py), on an unscrolled
\* page, its target (and the target's offset parents) lying at the page origin.
Event(id, px, py) ==
    [pointerId |-> id, pageX |-> Num(px), pageY |-> Num(py), clientX |-> Num(px),
     clientY |-> Num(py), target |-> [offsetLeft |-> Num(0), offsetTop |-> Num(0)]]
\* An undefined touchEventsCenterCache.
NoCenter == [pageX |-> Undef, pageY |-> Undef, clientX |-> Undef, clientY |-> Undef]
window == [scrollX |-> Num(0), scrollY |-> Num(0)]

\* The part of the instance the geometry methods read and write.
This ==
    [options |-> options, zoom |-> zoom, x |-> x, y |-> y,
     transition |-> transition, fired |-> <<>>, threw |-> FALSE]

wrapperWidth == Num(wrapper.clientWidth)
wrapperHeight == Num(wrapper.clientHeight)
containerWidth == Num(container.clientWidth)
containerHeight == Num(container.clientHeight)

\* ------------------------------------------------------------ methods

getPosition(t) == [zoom |-> t.zoom, x |-> t.x, y |-> t.y]

fireEvent(t, event) ==
    [t EXCEPT !.fired = Append(@, [name |-> event, pass |-> getPosition(t)])]

\* setPosition, "fit to bounds", one axis: the two offsets and the clamp.
UpperOffset(z, containerSize) == Mul(Div(containerSize, Num(2)), Sub(z, Num(1)))
LowerOffset(z, wrapperSize, containerSize) ==
    Sub(Add(Mul(UpperOffset(z, containerSize), Num(-1)), wrapperSize), containerSize)

\* `v < upper && (v = upper); v > lower && (v = lower)`
FitSmaller(v, upperOffset, lowerOffset) ==
    IF Lt(v, upperOffset)
    THEN (IF Gt(upperOffset, lowerOffset) THEN lowerOffset ELSE upperOffset)
    ELSE (IF Gt(v, lowerOffset) THEN lowerOffset ELSE v)

\* FitLarger without its second line.
FitLarger_NoLower(v, upperOffset, lowerOffset) == MathMin(v, upperOffset)

\* `v = Math.min(v, upper); v = Math.max(v, lower)`
FitLarger(v, upperOffset, lowerOffset) == MathMax(MathMin(v, upperOffset), lowerOffset)

FitToBounds(v, z, wrapperSize, containerSize) ==
    IF Lt(Mul(containerSize, z), wrapperSize)
    THEN FitSmaller(v, UpperOffset(z, containerSize), LowerOffset(z, wrapperSize, containerSize))
    ELSE FitLarger(v, UpperOffset(z, containerSize), LowerOffset(z, wrapperSize, containerSize))

setPosition(t, instant) ==
    fireEvent(
        [t EXCEPT
           !.transition = ~instant,
           !.x = IF t.options.bounds = "off" THEN t.x
                 ELSE FitToBounds(t.x, t.zoom, wrapperWidth, containerWidth),
           !.y = IF t.options.bounds = "off" THEN t.y
                 ELSE FitToBounds(t.y, t.zoom, wrapperHeight, containerHeight)],
        "onChange")

\* panTo: the pixel offset of a percentage on one axis.
PanPixels(percent, z, wrapperSize, containerSize) ==
    Add(Add(Mul(Div(Mul(Mul(containerSize, z), percent), Hundred), Num(-1)),
            Mul(Sub(z, Num(1)), Mul(containerSize, Half))),
        Mul(wrapperSize, Half))

PanToOffsets(t, px, py) ==
    [t EXCEPT !.x = PanPixels(px, t.zoom, wrapperWidth, containerWidth),
              !.y = PanPixels(py, t.zoom, wrapperHeight, containerHeight)]

panTo(t, px, py, instant, ignorePosition) ==
    fireEvent(IF ignorePosition THEN PanToOffsets(t, px, py)
              ELSE setPosition(PanToOffsets(t, px, py), instant),
              "onPan")

\* center that pans to the content's top left corner.
center_TopLeft(t, instant, ignorePosition) ==
    panTo(t, Num(0), Num(0), instant, ignorePosition)

center(t, instant, ignorePosition) == panTo(t, Num(50), Num(50), instant, ignorePosition)

\* getPanX / getPanY: the pan position on one axis, in pixels and in percent.
\* PanPosition without its second line.
PanPosition_NoZoomTerm(v, z, wrapperSize, containerSize) ==
    Add(Mul(wrapperSize, Half), Mul(v, Num(-1)))
PanPosition(v, z, wrapperSize, containerSize) ==
    Add(Add(Mul(wrapperSize, Half), Mul(v, Num(-1))),
        Mul(Sub(z, Num(1)), Mul(containerSize, Half)))
PanPercent(v, z, wrapperSize, containerSize) ==
    Mul(Div(PanPosition(v, z, wrapperSize, containerSize), Mul(containerSize, z)), Hundred)

getPanX(t, pixelValues) ==
    IF pixelValues THEN PanPosition(t.x, t.zoom, wrapperWidth, containerWidth)
    ELSE PanPercent(t.x, t.zoom, wrapperWidth, containerWidth)
getPanY(t, pixelValues) ==
    IF pixelValues THEN PanPosition(t.y, t.zoom, wrapperHeight, containerHeight)
    ELSE PanPercent(t.y, t.zoom, wrapperHeight, containerHeight)
getPan(t, pixelValues) == [x |-> getPanX(t, pixelValues), y |-> getPanY(t, pixelValues)]

\* A zoom argument: a number, or the string 'contain' / 'cover'.
ZoomNumber(v) == [kind |-> "number", val |-> v]
ZoomString(s) == [kind |-> s, val |-> NaN]

minZoomX == Div(wrapperWidth, containerWidth)
minZoomY == Div(wrapperHeight, containerHeight)

\* The two clamps at the end of sanitizeZoom.
AdjustForMaxZoom(z, opts) == IF Gt(z, opts.maxZoom) THEN opts.maxZoom ELSE z
AdjustForMinZoom(z, opts) == IF Lt(z, opts.minZoom) THEN opts.minZoom ELSE z
ClampZoom(z, opts) == AdjustForMaxZoom(AdjustForMinZoom(z, opts), opts)

\* sanitizeZoom: the instance after the call (center(true, true) moves it for
\* 'contain' and 'cover') and the value returned.
sanitizeZoom(t, arg) ==
    IF arg.kind \in {"cover", "contain"}
    THEN [this |-> center(t, TRUE, TRUE),
          zoom |-> ClampZoom(IF arg.kind = "cover" THEN MathMax(minZoomX, minZoomY)
                             ELSE MathMin(minZoomX, minZoomY), t.options)]
    ELSE [this |-> t, zoom |-> ClampZoom(arg.val, t.options)]

\* getEventOffsetToParent: the target's offsetLeft/offsetTop stand for the sum
\* the loop takes over the target and its offset parents.
getEventOffsetToParent(ev) ==
    [x |-> Sub(ev.clientX, ev.target.offsetLeft),
     y |-> Sub(ev.clientY, ev.target.offsetTop)]

\* getEventOffsetToCenter without the event's part: the offset of the
\* viewport's center whatever the event.
getEventOffsetToCenter_NoCursor(t, ev) ==
    [x |-> Sub(t.x, Mul(Sub(wrapperWidth, containerWidth), Half)),
     y |-> Sub(t.y, Mul(Sub(wrapperHeight, containerHeight), Half))]

\* getEventOffsetToCenter(ev); ev = NoEvent when the argument is omitted.
getEventOffsetToCenter(t, ev) ==
    [x |-> Sub(Sub(t.x, Mul(Sub(wrapperWidth, containerWidth), Half)),
               IF ev = NoEvent THEN Num(0)
               ELSE Mul(Sub(Sub(Div(wrapperWidth, Num(2)), getEventOffsetToParent(ev).x),
                            window.scrollX), Num(-1))),
     y |-> Sub(Sub(t.y, Mul(Sub(wrapperHeight, containerHeight), Half)),
               IF ev = NoEvent THEN Num(0)
               ELSE Mul(Sub(Sub(Div(wrapperHeight, Num(2)), getEventOffsetToParent(ev).y),
                            window.scrollY), Num(-1)))]

\* adjustPositionByZoom: the cap on one offset,
\* `v > max && (v = Math.min(v, max)); v < -max && (v = Math.max(v, -max))`.
CapBelow(v, low) == IF Lt(v, low) THEN MathMax(v, low) ELSE v
CapOffset(v, maxOffset) ==
    CapBelow(IF Gt(v, maxOffset) THEN MathMin(v, maxOffset) ELSE v, Mul(maxOffset, Num(-1)))

MoveByGrowth(t, zoomGrowth, ox, oy) ==
    [t EXCEPT !.x = Add(@, Mul(ox, zoomGrowth)), !.y = Add(@, Mul(oy, zoomGrowth))]

adjustPositionByZoom(t, z, ox, oy) ==
    MoveByGrowth(t, Div(Sub(z, t.zoom), t.zoom),
                 CapOffset(ox, Mul(Mul(containerWidth, Half), t.zoom)),
                 CapOffset(oy, Mul(Mul(containerHeight, Half), t.zoom)))

\* The end of zoomTo and of mouseWheelEvent: adjust the position, set the
\* zoom, setPosition, then raise onZoom.
ApplyZoom(t, z, offsetToCenter, instant) ==
    fireEvent(setPosition([adjustPositionByZoom(t, z, offsetToCenter.x, offsetToCenter.y)
                             EXCEPT !.zoom = z], instant),
              "onZoom")

\* zoomTo from the result s of sanitizeZoom on.
ZoomToSanitized(s, instant) ==
    ApplyZoom(s.this, s.zoom, getEventOffsetToCenter(s.this, NoEvent), instant)

zoomTo(t, arg, instant) == ZoomToSanitized(sanitizeZoom(t, arg), instant)

\* `step || fallback`: undefined, NaN and 0 are falsy.
OrDefault(step, fallback) ==
    IF IsNaN(step) \/ step = Num(0) THEN fallback ELSE step

\* zoomInOut: with direction 'out' the assignment to the constant zoomStep
\* raises a TypeError before anything was changed.
zoomInOut(t, step, instant, direction) ==
    IF direction = "out" THEN [t EXCEPT !.threw = TRUE]
    ELSE zoomTo(t,
                ZoomNumber(Mul(t.zoom,
                    Div(Add(Hundred, OrDefault(step, t.options.zoomStep)), Hundred))),
                instant)

zoomIn(t, step, instant) == zoomInOut(t, step, instant, "in")
zoomOut(t, step, instant) == zoomInOut(t, step, instant, "out")

\* pan from the computed panWidth and panHeight on.
PanBy(t, panWidth, panHeight, instant, direction) ==
    fireEvent(
        setPosition(
            [t EXCEPT
               !.x = IF direction = "left" THEN Add(@, Mul(panWidth, Num(-1)))
                     ELSE IF direction = "right" THEN Add(@, panWidth) ELSE @,
               !.y = IF direction = "up" THEN Add(@, Mul(panHeight, Num(-1)))
                     ELSE IF direction = "down" THEN Add(@, panHeight) ELSE @],
            instant),
        "onPan")

pan(t, step, instant, direction) ==
    PanBy(t,
          Mul(Div(Mul(containerWidth, OrDefault(step, t.options.panStep)), Hundred), t.zoom),
          Mul(Div(Mul(containerWidth, OrDefault(step, t.options.panStep)), Hundred), t.zoom),
          instant, direction)

panLeft(t, step, instant) == pan(t, step, instant, "left")
panRight(t, step, instant) == pan(t, step, instant, "right")
panUp(t, step, instant) == pan(t, step, instant, "up")
panDown(t, step, instant) == pan(t, step, instant, "down")

\* The minZoom init derives from the option bounds.
AdjustMinZoom(opts) ==
    IF opts.bounds = "off" THEN opts.minZoom
    ELSE IF opts.bounds = "cover"
         THEN MathMax(MathMax(opts.minZoom, minZoomX), minZoomY)
    ELSE MathMax(opts.minZoom, MathMin(minZoomX, minZoomY))

\* init from "Set position" on.
InitPosition(t) ==
    fireEvent(IF t.options.center THEN center(t, TRUE, FALSE)
              ELSE panTo(t, t.options.initialPanX, t.options.initialPanY, TRUE, FALSE),
              "onInit")

\* init from the result s of sanitizeZoom(initialZoom) on.
InitZoomPan(s) ==
    InitPosition([s.this EXCEPT !.zoom = s.zoom, !.x = s.this.options.initialPanX,
                                !.y = s.this.options.initialPanY])

\* init from "Set initial zoom" on.
InitZoom(t) == InitZoomPan(sanitizeZoom(t, t.options.initialZoom))

\* init, called by the constructor.  A null wrapper makes `wrapper.style`
\* raise a TypeError, and a null container the first `container.clientWidth`.
init(t) ==
    IF ~wrapper.present THEN [t EXCEPT !.threw = TRUE]
    ELSE IF ~container.present
    THEN IF t.options.bounds = "off" /\ t.options.initialZoom.kind = "number"
         THEN [t EXCEPT !.zoom = ClampZoom(t.options.initialZoom.val, t.options),
                        !.x = t.options.initialPanX, !.y = t.options.initialPanY,
                        !.threw = TRUE]
         ELSE [t EXCEPT !.threw = TRUE]
    ELSE InitZoom([t EXCEPT !.options.minZoom = AdjustMinZoom(t.options)])

\* ------------------------------------------------------------ bounds, inputs

\* The number of operations (method calls and events) after construction.
MaxOps == 3
\* The pointer ids are 1..MaxPointers.
MaxPointers == 3

defaultOptions ==
    [center |-> TRUE, bounds |-> "contain", minZoom |-> Rat(1, 10), maxZoom |-> Num(10),
     panStep |-> Num(10), zoomStep |-> Num(50), zoomSpeedWheel |-> Num(1),
     zoomSpeedPinch |-> Num(4), initialZoom |-> ZoomString("contain"),
     initialPanX |-> Num(0), initialPanY |-> Num(0)]

coverOptions == [defaultOptions EXCEPT !.bounds = "cover"]
noBoundsOptions == [defaultOptions EXCEPT !.bounds = "off"]
\* A locked zoom.
lockedOptions == [defaultOptions EXCEPT !.minZoom = Num(1), !.maxZoom = Num(1)]
\* An explicit initial zoom and pan, without bounds.
initialPanOptions ==
    [defaultOptions EXCEPT !.bounds = "off", !.center = FALSE,
                           !.initialZoom = ZoomNumber(Num(2)),
                           !.initialPanX = Num(25), !.initialPanY = Num(75)]

\* The viewport, and contents of positive size: larger than the viewport,
\* smaller than it, and so small that the bounds need a zoom above maxZoom.
Viewport == Element(800, 600)
LargeContent == Element(1600, 1200)
SmallContent == Element(400, 400)
TinyContent == Element(40, 50)

\* The instances constructed: <<options, wrapper, container>>.
Configurations ==
    { <<defaultOptions, Viewport, LargeContent>>,
      <<defaultOptions, Viewport, TinyContent>>,
      <<coverOptions, Viewport, SmallContent>>,
      <<coverOptions, Viewport, TinyContent>>,
      <<initialPanOptions, Viewport, SmallContent>>,
      <<lockedOptions, Viewport, LargeContent>> }

\* Options that do not resolve to elements.
MissingElements ==
    { <<defaultOptions, NoElement, SmallContent>>,
      <<defaultOptions, Viewport, NoElement>>,
      <<initialPanOptions, Viewport, NoElement>>,
      <<defaultOptions, NoElement, NoElement>> }

\* Surfaces with a zero width or height.
DegenerateConfigurations ==
    { <<defaultOptions, Viewport, Element(0, 400)>>,
      <<coverOptions, Viewport, Element(0, 400)>>,
      <<noBoundsOptions, Element(0, 0), Element(0, 0)>>,
      <<defaultOptions, Element(0, 0), SmallContent>>,
      <<initialPanOptions, Element(0, 0), Element(0, 0)>> }

Positions == { <<100, 100>>, <<300, 500>> }
PointerIds == 1..MaxPointers
\* Wheel events: <<deltaY, deltaMode, position>>
WheelInputs ==
    { <<-120, 0, <<100, 100>>>>, <<120, 0, <<300, 500>>>>, <<0, 0, <<100, 100>>>>,
      <<3, 1, <<300, 500>>>> }
\* zoomTo calls: <<zoom, instant>>
ZoomToInputs ==
    { <<ZoomString("contain"), FALSE>>, <<ZoomString("cover"), TRUE>>,
      <<ZoomNumber(Num(2)), FALSE>>, <<ZoomNumber(Rat(1, 2)), TRUE>>,
      <<ZoomNumber(Num(100)), FALSE>> }
\* zoomIn/zoomOut/pan* calls: <<step, instant>>, an omitted step being Undef
StepInputs == { <<Undef, FALSE>>, <<Num(25), TRUE>> }
\* panTo calls: <<x, y, instant>>
PanToInputs == { <<Num(0), Num(0), FALSE>>, <<Num(100), Num(25), TRUE>> }

\* ------------------------------------------------------------ actions

\* An operation without arguments.
NoInput == <<>>

InitWith(configurations) ==
    /\ phase = "new"
    /\ \E c \in configurations : options = c[1] /\ wrapper = c[2] /\ container = c[3]
    /\ zoom = Undef /\ x = Undef /\ y = Undef
    /\ transition = FALSE
    /\ evCache = <<>>
    /\ zoomCache = Undef /\ xCache = Undef /\ yCache = Undef
    /\ pinchDiffCache = Undef
    /\ touchEventsCenterCache = NoCenter
    /\ blockPan = "undefined"
    /\ previousEvent = NoEvent
    /\ moveListener = FALSE
    /\ fired = <<>>
    /\ last = [op |-> "none", threw |-> FALSE]
    /\ input = NoInput
    /\ pinchEnded = FALSE
    /\ ops = 0

Init == InitWith(Configurations \cup MissingElements)

\* The instance after a method ran on `This`, as the next state.
StoreFields(name, t) ==
    /\ options' = t.options
    /\ zoom' = t.zoom /\ x' = t.x /\ y' = t.y
    /\ transition' = t.transition
    /\ fired' = t.fired
    /\ last' = [op |-> name, threw |-> t.threw]

\* The same, counting the operation.
Store(name, t) == StoreFields(name, t) /\ ops' = ops + 1

Ready == phase = "ready" /\ ops < MaxOps

\* The instance the constructor leaves, or none when init threw.
Constructed(t) ==
    /\ StoreFields("constructor", t)
    /\ phase' = IF t.threw THEN "failed" ELSE "ready"

\* new domPanZoom(options)
Construct ==
    /\ phase = "new"
    /\ Constructed(init(This))
    /\ evCache' = <<>>
    /\ pinchDiffCache' = IF wrapper.present THEN Num(0) ELSE pinchDiffCache
    /\ input' = NoInput
    /\ UNCHANGED <<wrapper, container, zoomCache, xCache, yCache,
                   touchEventsCenterCache, blockPan, previousEvent, moveListener,
                   pinchEnded, ops>>

ZoomTo ==
    /\ Ready
    /\ \E in \in ZoomToInputs : Store("zoomTo", zoomTo(This, in[1], in[2])) /\ input' = in
    /\ UNCHANGED <<phase, wrapper, container, gestureVars>>

ZoomIn ==
    /\ Ready
    /\ \E in \in StepInputs : Store("zoomIn", zoomIn(This, in[1], in[2])) /\ input' = in
    /\ UNCHANGED <<phase, wrapper, container, gestureVars>>

ZoomOut ==
    /\ Ready
    /\ \E in \in StepInputs : Store("zoomOut", zoomOut(This, in[1], in[2])) /\ input' = in
    /\ UNCHANGED <<phase, wrapper, container, gestureVars>>

\* The arguments of panTo(p.x, p.y, true) for p = getPan().
PanToGetPan == <<getPanX(This, FALSE), getPanY(This, FALSE), TRUE>>

PanTo ==
    /\ Ready
    /\ \E in \in PanToInputs \cup {PanToGetPan} : Store("panTo", panTo(This, in[1], in[2], in[3], FALSE)) /\ input' = in
    /\ UNCHANGED <<phase, wrapper, container, gestureVars>>

PanLeft ==
    /\ Ready
    /\ \E in \in StepInputs : Store("panLeft", panLeft(This, in[1], in[2])) /\ input' = in
    /\ UNCHANGED <<phase, wrapper, container, gestureVars>>

PanRight ==
    /\ Ready
    /\ \E in \in StepInputs : Store("panRight", panRight(This, in[1], in[2])) /\ input' = in
    /\ UNCHANGED <<phase, wrapper, container, gestureVars>>

PanUp ==
    /\ Ready
    /\ \E in \in StepInputs : Store("panUp", panUp(This, in[1], in[2])) /\ input' = in
    /\ UNCHANGED <<phase, wrapper, container, gestureVars>>

PanDown ==
    /\ Ready
    /\ \E in \in StepInputs : Store("panDown", panDown(This, in[1], in[2])) /\ input' = in
    /\ UNCHANGED <<phase, wrapper, container, gestureVars>>

Center ==
    /\ Ready
    /\ \E instant \in BOOLEAN : Store("center", center(This, instant, FALSE)) /\ input' = <<instant>>
    /\ UNCHANGED <<phase, wrapper, container, gestureVars>>

getTouchEventsDistance(ev1, ev2) ==
    MathAbs(MathHypot(Sub(ev1.pageX, ev1.pageX), Sub(ev1.pageY, ev2.pageY)))

getTouchEventsCenter(ev1, ev2) ==
    [pageX |-> Div(Add(ev1.pageX, ev2.pageX), Num(2)),
     pageY |-> Div(Add(ev1.pageY, ev2.pageX), Num(2)),
     clientX |-> Div(Add(ev1.clientX, ev2.clientX), Num(2)),
     clientY |-> Div(Add(ev1.clientY, ev2.clientY), Num(2))]

\* An event that changes nothing but is counted.
Idle(name) ==
    /\ fired' = <<>>
    /\ last' = [op |-> name, threw |-> FALSE]
    /\ ops' = ops + 1
    /\ UNCHANGED <<options, zoom, x, y, transition>>

\* mouseDownTouchStartEvent
OnMouseDown ==
    /\ moveListener' = TRUE
    /\ pinchEnded' = FALSE
    /\ input' = NoInput
    /\ Idle("mousedown")
    /\ UNCHANGED <<phase, wrapper, container, evCache, zoomCache, xCache, yCache,
                   pinchDiffCache, touchEventsCenterCache, blockPan, previousEvent>>

\* mousedown / touchstart on the wrapper
MouseDownTouchStart == Ready /\ OnMouseDown

\* setPositionEvent when blockPan is not set.
setPositionEvent(t, event) ==
    fireEvent(
        setPosition(
            [t EXCEPT
               !.x = Add(@, IF previousEvent # NoEvent
                            THEN Sub(event.pageX, previousEvent.pageX) ELSE Num(0)),
               !.y = Add(@, IF previousEvent # NoEvent
                            THEN Sub(event.pageY, previousEvent.pageY) ELSE Num(0))],
            TRUE),
        "onPan")

\* OnMouseMove without the test of blockPan.
OnMouseMove_NoBlock(positions) ==
    /\ moveListener
    /\ \E p \in positions :
         /\ Store("mousemove", setPositionEvent(This, Event(0, p[1], p[2])))
         /\ previousEvent' = Event(0, p[1], p[2])
    /\ input' = NoInput
    /\ UNCHANGED <<phase, wrapper, container, evCache, zoomCache, xCache, yCache,
                   pinchDiffCache, touchEventsCenterCache, blockPan, moveListener,
                   pinchEnded>>

\* The document's mousemove / touchmove listener, for an event at one of the
\* positions: it returns at once while blockPan is set.
OnMouseMove(positions) ==
    /\ moveListener
    /\ \E p \in positions :
         IF blockPan = "true"
         THEN Idle("mousemove") /\ UNCHANGED previousEvent
         ELSE /\ Store("mousemove", setPositionEvent(This, Event(0, p[1], p[2])))
              /\ previousEvent' = Event(0, p[1], p[2])
    /\ input' = NoInput
    /\ UNCHANGED <<phase, wrapper, container, evCache, zoomCache, xCache, yCache,
                   pinchDiffCache, touchEventsCenterCache, blockPan, moveListener,
                   pinchEnded>>

\* mousemove / touchmove on the document while setPositionEvent is attached
MouseMoveTouchMove == Ready /\ OnMouseMove(Positions)

\* mouseUpTouchEndEvent
OnMouseUp ==
    /\ previousEvent' = NoEvent
    /\ moveListener' = FALSE
    /\ input' = NoInput
    /\ Idle("mouseup")
    /\ UNCHANGED <<phase, wrapper, container, evCache, zoomCache, xCache, yCache,
                   pinchDiffCache, touchEventsCenterCache, blockPan, pinchEnded>>

\* mouseup / touchend on the document
MouseUpTouchEnd == Ready /\ OnMouseUp

\* The factor a wheel event multiplies the zoom by.
WheelDelta(deltaY, deltaMode) ==
    IF deltaMode > 0 THEN Mul(Num(deltaY), Hundred) ELSE Num(deltaY)
\* AdjustSpeed without the cap of 0.25.
AdjustSpeed_NoCap(delta, speed) ==
    Sub(Num(1), Mul(MathSign(delta), MathAbs(Div(Mul(speed, delta), Num(128)))))
AdjustSpeed(delta, speed) ==
    Sub(Num(1), Mul(MathSign(delta),
                    MathMin(Rat(1, 4), MathAbs(Div(Mul(speed, delta), Num(128))))))
DeltaAdjustedSpeed(deltaY, deltaMode, speed) ==
    AdjustSpeed(WheelDelta(deltaY, deltaMode), speed)

\* mouseWheelEvent from the result s of sanitizeZoom on.
WheelSanitized(s, ev) ==
    ApplyZoom(s.this, s.zoom, getEventOffsetToCenter(s.this, ev), TRUE)

mouseWheelEvent(t, ev, deltaY, deltaMode) ==
    WheelSanitized(
        sanitizeZoom(t, ZoomNumber(Mul(t.zoom,
            DeltaAdjustedSpeed(deltaY, deltaMode, t.options.zoomSpeedWheel)))),
        ev)

\* The wrapper's wheel listener, for one of the events.
OnWheel(events) ==
    /\ \E w \in events :
         /\ Store("wheel", mouseWheelEvent(This, Event(0, w[3][1], w[3][2]), w[1], w[2]))
         /\ input' = w
    /\ UNCHANGED <<phase, wrapper, container, gestureVars>>

\* wheel on the wrapper
MouseWheel == Ready /\ OnWheel(WheelInputs)

\* pointerDownEvent on the cache the event was pushed to.
pointerDownEvent(cache) ==
    /\ evCache' = cache
    /\ zoomCache' = zoom
    /\ xCache' = x
    /\ yCache' = y
    /\ IF Len(cache) = 2
       THEN /\ blockPan' = "true"
            /\ pinchDiffCache' = getTouchEventsDistance(cache[1], cache[2])
            /\ touchEventsCenterCache' = getTouchEventsCenter(cache[1], cache[2])
       ELSE UNCHANGED <<blockPan, pinchDiffCache, touchEventsCenterCache>>

\* The id of a pointer that goes down: the smallest one that is not tracked
\* (the ids only matter up to equality).
FreshPointerId ==
    CHOOSE id \in PointerIds :
        /\ \A i \in 1..Len(evCache) : evCache[i].pointerId # id
        /\ \A other \in 1..(id - 1) : \E i \in 1..Len(evCache) : evCache[i].pointerId = other

\* A pointerdown event of a new pointer at one of the positions.
OnPointerDown(positions) ==
    /\ Len(evCache) < MaxPointers
    /\ \E p \in positions :
         pointerDownEvent(Append(evCache, Event(FreshPointerId, p[1], p[2])))
    /\ input' = NoInput
    /\ Idle("pointerdown")
    /\ UNCHANGED <<phase, wrapper, container, previousEvent, moveListener, pinchEnded>>

\* pointerdown on the wrapper
PointerDown == Ready /\ OnPointerDown(Positions)

\* The index of the first cached event with the pointer id, or 0.
IndexOf(cache, id) ==
    IF \E i \in 1..Len(cache) : cache[i].pointerId = id
    THEN CHOOSE i \in 1..Len(cache) :
            /\ cache[i].pointerId = id
            /\ \A j \in 1..(i - 1) : cache[j].pointerId # id
    ELSE 0

\* The loop of pointerMoveEvent: the cache with the event's entry replaced.
ReplaceAt(cache, i, ev) == IF i = 0 THEN cache ELSE [cache EXCEPT ![i] = ev]
\* The loop of pointerUpEvent: the cache with the event's entry spliced out.
SpliceAt(cache, i) ==
    IF i = 0 THEN cache ELSE SubSeq(cache, 1, i - 1) \o SubSeq(cache, i + 1, Len(cache))

\* pinchDiffPercent of pointerMoveEvent
PinchDiffPercent(cache, speed) ==
    Add(Mul(Div(Sub(getTouchEventsDistance(cache[1], cache[2]), pinchDiffCache),
                containerWidth), speed), Num(1))

\* The pinch update from the adjusted instance on: the position follows the
\* movement of the center, then setPosition, onZoom, onPan.
PinchCommit(t, z, touchEventsCenter) ==
    fireEvent(fireEvent(
        setPosition(
            [t EXCEPT
               !.x = Add(xCache, Sub(touchEventsCenter.clientX,
                                     touchEventsCenterCache.clientX)),
               !.y = Add(yCache, Sub(touchEventsCenter.clientY,
                                     touchEventsCenterCache.clientY)),
               !.zoom = z],
            TRUE),
        "onZoom"), "onPan")

PinchAdjust(t, z, offsetToCenter, touchEventsCenter) ==
    PinchCommit(adjustPositionByZoom(t, z, offsetToCenter.x, offsetToCenter.y),
                z, touchEventsCenter)

\* The pinch update from the result s of sanitizeZoom on.
PinchSanitized(s, touchEventsCenter, target) ==
    PinchAdjust(s.this, s.zoom,
                getEventOffsetToCenter(s.this,
                    [NoEvent EXCEPT !.target = target,
                                    !.clientX = touchEventsCenter.clientX,
                                    !.clientY = touchEventsCenter.clientY]),
                touchEventsCenter)

\* The pinch update of pointerMoveEvent, for a cache of two events.
pinchUpdate(t, cache) ==
    PinchSanitized(
        sanitizeZoom(t, ZoomNumber(Mul(zoomCache,
            PinchDiffPercent(cache, t.options.zoomSpeedPinch)))),
        getTouchEventsCenter(cache[1], cache[2]),
        cache[1].target)

\* pointerMoveEvent on the cache with the event's entry replaced.
pointerMoveEvent(cache) ==
    /\ evCache' = cache
    /\ IF Len(cache) = 2
       THEN Store("pointermove", pinchUpdate(This, cache))
       ELSE Idle("pointermove")

\* A pointermove event of a pointer id to one of the positions.
OnPointerMove(positions) ==
    /\ \E id \in PointerIds, p \in positions :
         pointerMoveEvent(ReplaceAt(evCache, IndexOf(evCache, id), Event(id, p[1], p[2])))
    /\ input' = NoInput
    /\ UNCHANGED <<phase, wrapper, container, zoomCache, xCache, yCache, pinchDiffCache,
                   touchEventsCenterCache, blockPan, previousEvent, moveListener,
                   pinchEnded>>

\* pointermove on the wrapper
PointerMove == Ready /\ OnPointerMove(Positions)

\* pointerUpEvent without the reset of blockPan.
pointerUpEvent_KeepsBlock(cache) ==
    /\ evCache' = cache
    /\ blockPan' = blockPan

\* pointerUpEvent on the cache with the event's entry removed.
pointerUpEvent(cache) ==
    /\ evCache' = cache
    /\ blockPan' = IF Len(cache) < 2 THEN "false" ELSE blockPan

\* A pointerup / pointercancel / pointerout / pointerleave event of a pointer id.
OnPointerUp ==
    /\ \E id \in PointerIds : pointerUpEvent(SpliceAt(evCache, IndexOf(evCache, id)))
    /\ pinchEnded' = (pinchEnded \/ (Len(evCache) = 2 /\ Len(evCache') = 1))
    /\ input' = NoInput
    /\ Idle("pointerup")
    /\ UNCHANGED <<phase, wrapper, container, zoomCache, xCache, yCache, pinchDiffCache,
                   touchEventsCenterCache, previousEvent, moveListener>>

\* pointerup / pointercancel / pointerout / pointerleave on the wrapper
PointerUp == Ready /\ OnPointerUp

Next ==
    \/ Construct
    \/ ZoomTo \/ ZoomIn \/ ZoomOut
    \/ PanTo \/ PanLeft \/ PanRight \/ PanUp \/ PanDown \/ Center
    \/ MouseDownTouchStart \/ MouseMoveTouchMove \/ MouseUpTouchEnd
    \/ MouseWheel
    \/ PointerDown \/ PointerMove \/ PointerUp

Spec == Init /\ [][Next]_vars

\* The same program on surfaces with a zero width or height.
InitDegenerate == InitWith(DegenerateConfigurations)
SpecDegenerate == InitDegenerate /\ [][Next]_vars

\* The mouse, touch and pointer events alone, in longer sequences, on an
\* instance without bounds and on one with bounds.
MaxGestureOps == 6
GestureConfigurations ==
    { <<initialPanOptions, Viewport, SmallContent>>,
      <<coverOptions, Viewport, SmallContent>> }
GestureReady == phase = "ready" /\ ops < MaxGestureOps
GestureMouseDown == GestureReady /\ OnMouseDown
GestureMouseMove == GestureReady /\ OnMouseMove(Positions)
GestureMouseUp == GestureReady /\ OnMouseUp
GesturePointerDown == GestureReady /\ OnPointerDown(Positions)
GesturePointerMove == GestureReady /\ OnPointerMove(Positions)
GesturePointerUp == GestureReady /\ OnPointerUp
InitGesture == InitWith(GestureConfigurations)
NextGesture ==
    \/ Construct
    \/ GestureMouseDown \/ GestureMouseMove \/ GestureMouseUp
    \/ GesturePointerDown \/ GesturePointerMove \/ GesturePointerUp
SpecGesture == InitGesture /\ [][NextGesture]_vars

\* The public methods alone.
\* Wheel events alone, at more deltas and cursor positions.
MaxWheelOps == 3
\* <<deltaY, deltaMode>>: pixel, line and page deltas
WheelDeltas == { <<-120, 0>>, <<0, 0>>, <<-16, 0>>, <<3, 1>>, <<-1, 2>> }
WheelPositions == { <<100, 100>>, <<300, 500>>, <<400, 300>> }
WheelEvents == { <<d[1], d[2], p>> : d \in WheelDeltas, p \in WheelPositions }
WheelConfigurations ==
    { <<noBoundsOptions, Viewport, LargeContent>>,
      <<initialPanOptions, Viewport, SmallContent>>,
      <<defaultOptions, Viewport, LargeContent>>,
      <<coverOptions, Viewport, SmallContent>> }
WheelEvent == phase = "ready" /\ ops < MaxWheelOps /\ OnWheel(WheelEvents)
InitWheel == InitWith(WheelConfigurations)
NextWheel == Construct \/ WheelEvent
SpecWheel == InitWheel /\ [][NextWheel]_vars

\* Pointer events alone, at positions separated along the x axis and along
\* the y axis.
MaxPinchOps == 4
PinchPositions == { <<100, 100>>, <<200, 100>>, <<80, 100>>, <<220, 100>>, <<100, 200>> }
PinchConfigurations == { <<initialPanOptions, Viewport, SmallContent>> }
PinchReady == phase = "ready" /\ ops < MaxPinchOps
PinchPointerDown == PinchReady /\ OnPointerDown(PinchPositions)
PinchPointerMove == PinchReady /\ OnPointerMove(PinchPositions)
PinchPointerUp == PinchReady /\ OnPointerUp
InitPinch == InitWith(PinchConfigurations)
NextPinch == Construct \/ PinchPointerDown \/ PinchPointerMove \/ PinchPointerUp
SpecPinch == InitPinch /\ [][NextPinch]_vars

\* The pan steps and zoomTo, without bounds, on contents that are not square
\* and on a square one.
PanConfigurations ==
    { <<noBoundsOptions, Viewport, LargeContent>>,
      <<noBoundsOptions, Viewport, TinyContent>>,
      <<initialPanOptions, Viewport, SmallContent>> }
InitPan == InitWith(PanConfigurations)
NextPan == Construct \/ ZoomTo \/ PanLeft \/ PanRight \/ PanUp \/ PanDown
SpecPan == InitPan /\ [][NextPan]_vars

NextApi ==
    \/ Construct
    \/ ZoomTo \/ ZoomIn \/ ZoomOut
    \/ PanTo \/ PanLeft \/ PanRight \/ PanUp \/ PanDown \/ Center
SpecApi == Init /\ [][NextApi]_vars

\* The default options on viewports and contents of many sizes, with the
\* calls that set the zoom and the pan position.
ViewportSides == {600, 800}
ContentSides == {40, 50, 400, 1200, 1600}
SizedConfigurations ==
    { <<defaultOptions, Element(ww, wh), Element(cw, ch)>> :
        ww \in ViewportSides, wh \in ViewportSides,
        cw \in ContentSides, ch \in ContentSides }
InitSized == InitWith(SizedConfigurations)
NextSized == Construct \/ ZoomTo \/ PanTo
SpecSized == InitSized /\ [][NextSized]_vars

\* ------------------------------------------------------------ claims

ZoomMutators == {"zoomTo", "zoomIn", "zoomOut"}
PanMutators == {"panTo", "panLeft", "panRight", "panUp", "panDown", "center"}
Mutators == ZoomMutators \cup PanMutators
\* The names of the notifications the last operation raised, in order.
FiredNames == [i \in 1..Len(fired) |-> fired[i].name]
\* Whether the last operation was a pinch update.
PinchUpdated == last.op = "pointermove" /\ Len(evCache) = 2

\* C1: once the constructor, a public mutator or a gesture event has
\* completed, options.minZoom <= zoom <= options.maxZoom.
C1_ZoomWithinLimits ==
    (phase = "ready" /\ ~last.threw) =>
        (Le(options.minZoom, zoom) /\ Le(zoom, options.maxZoom))

\* The edges of the scaled content on one axis (the transform scales the
\* content about its center and translates it by the offset).
ScaledLow(v, z, containerSize) ==
    Sub(Add(v, Mul(containerSize, Half)), Mul(Mul(containerSize, z), Half))
ScaledHigh(v, z, containerSize) ==
    Add(Add(v, Mul(containerSize, Half)), Mul(Mul(containerSize, z), Half))

\* The offset v lies between the two offsets of its axis.
InWindow(v, z, wrapperSize, containerSize) ==
    /\ Le(MathMin(UpperOffset(z, containerSize), LowerOffset(z, wrapperSize, containerSize)), v)
    /\ Le(v, MathMax(UpperOffset(z, containerSize), LowerOffset(z, wrapperSize, containerSize)))

\* The scaled content covers the viewport on the axis when it is at least as
\* large, and lies inside the viewport when it is smaller.
CoversOrInside(v, z, wrapperSize, containerSize) ==
    IF Le(wrapperSize, Mul(containerSize, z))
    THEN /\ Le(ScaledLow(v, z, containerSize), Num(0))
         /\ Le(wrapperSize, ScaledHigh(v, z, containerSize))
    ELSE /\ Le(Num(0), ScaledLow(v, z, containerSize))
         /\ Le(ScaledHigh(v, z, containerSize), wrapperSize)

\* C2: with bounds enabled, after every setPosition each offset lies between
\* upperOffset and lowerOffset of its axis; the scaled content then covers the
\* viewport on an axis where it is at least as large as it, and lies inside
\* the viewport where it is smaller.  (x, y and zoom only change in operations
\* that end with setPosition, so this is an invariant of the constructed
\* instance.)
C2_OffsetsWithinBounds ==
    (phase = "ready" /\ options.bounds # "off") =>
        /\ InWindow(x, zoom, wrapperWidth, containerWidth)
        /\ InWindow(y, zoom, wrapperHeight, containerHeight)
        /\ CoversOrInside(x, zoom, wrapperWidth, containerWidth)
        /\ CoversOrInside(y, zoom, wrapperHeight, containerHeight)

\* C2 witness: a drag down to page y = 500, on content that is higher than
\* the viewport once zoomed, was stopped at the upper offset.
C2_Witness_DragClamped ==
    /\ phase = "ready" /\ options.bounds # "off"
    /\ last.op = "mousemove" /\ fired # <<>>
    /\ previousEvent.pageY = Num(500)
    /\ Lt(wrapperHeight, Mul(containerHeight, zoom))
    /\ y = UpperOffset(zoom, containerHeight)
    /\ y # LowerOffset(zoom, wrapperHeight, containerHeight)

\* C3: a call of a public mutator completes without raising an exception.
C3_MutatorsDoNotThrow == (last.op \in Mutators) => ~last.threw

\* C4: with minZoom = 1 and maxZoom = 1, zoom is 1 after every operation and
\* no zoom request throws.
C4_LockedZoom ==
    (phase = "ready" /\ options.minZoom = Num(1) /\ options.maxZoom = Num(1)) =>
        (zoom = Num(1) /\ ~last.threw)

\* C5: the pointer cache never holds more than 2 entries.
C5_CacheAtMostTwo == Len(evCache) <= 2

\* C6: with bounds 'cover' the zoomed content is at least as wide and as high
\* as the viewport; with bounds 'contain' the zoom is at least the smaller of
\* the two viewport/content ratios.
C6_ZoomSatisfiesBounds ==
    /\ (phase = "ready" /\ options.bounds = "cover") =>
          /\ Le(wrapperWidth, Mul(zoom, containerWidth))
          /\ Le(wrapperHeight, Mul(zoom, containerHeight))
    /\ (phase = "ready" /\ options.bounds = "contain") =>
          Le(MathMin(minZoomX, minZoomY), zoom)

\* C7: the constructor does not throw when the wrapperElement or the
\* panZoomElement option does not resolve to an element.
C7_ConstructorDoesNotThrow ==
    (last.op = "constructor" /\ (~wrapper.present \/ ~container.present)) => ~last.threw

\* C8: on surfaces with a zero width or height, zoom, x, y and minZoom of a
\* constructed instance are finite numbers.
C8_AlwaysFinite ==
    (phase = "ready") =>
        (IsFinite(zoom) /\ IsFinite(x) /\ IsFinite(y) /\ IsFinite(options.minZoom))

\* C9: a completed call of a zoom mutator raises onChange then onZoom, one of
\* a pan mutator onChange then onPan, a pinch update onChange, onZoom, onPan;
\* nothing else is raised, and all of them pass the same snapshot.
C9_NotificationOrder ==
    /\ (last.op \in ZoomMutators /\ ~last.threw) => FiredNames = <<"onChange", "onZoom">>
    /\ (last.op \in PanMutators /\ ~last.threw) => FiredNames = <<"onChange", "onPan">>
    /\ PinchUpdated => FiredNames = <<"onChange", "onZoom", "onPan">>
    /\ (last.op \in Mutators \/ PinchUpdated) =>
          \A i \in 1..Len(fired) : fired[i].pass = fired[1].pass

\* C10: every notification, those raised while the constructor runs included,
\* passes a snapshot whose zoom is a number in [minZoom, maxZoom] and whose x
\* and y are finite numbers.
C10_SnapshotsAreNumbers ==
    \A i \in 1..Len(fired) :
        /\ IsFinite(fired[i].pass.zoom)
        /\ Le(options.minZoom, fired[i].pass.zoom)
        /\ Le(fired[i].pass.zoom, options.maxZoom)
        /\ IsFinite(fired[i].pass.x)
        /\ IsFinite(fired[i].pass.y)

\* The option record the instance was constructed with (init rewrites minZoom).
Configured ==
    CHOOSE o \in {c[1] : c \in Configurations \cup MissingElements \cup DegenerateConfigurations} :
        [o EXCEPT !.minZoom = options.minZoom] = options
\* v clamped to [lo, hi]
Clamp(v, lo, hi) == MathMin(MathMax(v, lo), hi)
\* getPan() reports the center of the content.
Centered == getPan(This, FALSE) = [x |-> Num(50), y |-> Num(50)]
\* The constructor has run with center = true, initialZoom = 'contain' and
\* bounds = 'contain'.
ConstructedContained ==
    /\ last.op = "constructor" /\ phase = "ready"
    /\ options.center /\ options.initialZoom = ZoomString("contain")
    /\ options.bounds = "contain"

\* C11: after construction with center = true, initialZoom = 'contain' and
\* bounds = 'contain', zoom is min(viewportW/contentW, viewportH/contentH)
\* clamped to the configured [minZoom, maxZoom] and getPan() reports (50, 50);
\* for a viewport of 800x600 and a content of 1600x1200 the zoom is 1/2; and
\* after zoomTo('contain') getPan() reports (50, 50) whatever the offsets were.
C11_ContainCentered ==
    /\ ConstructedContained =>
          /\ zoom = Clamp(MathMin(minZoomX, minZoomY), Configured.minZoom, Configured.maxZoom)
          /\ Centered
    /\ (ConstructedContained /\ options.maxZoom = Num(10)
           /\ wrapper = Viewport /\ container = LargeContent) => zoom = Half
    /\ (last.op = "zoomTo" /\ ~last.threw /\ input[1] = ZoomString("contain")) => Centered

\* C11 witness: the instance of 800x600 and 1600x1200 as constructed, at zoom
\* 1/2 and centered.
C11_Witness_ScenarioA ==
    /\ ConstructedContained /\ options.maxZoom = Num(10)
    /\ wrapper = Viewport /\ container = LargeContent
    /\ zoom = Half /\ x = Num(-400) /\ y = Num(-300)
    /\ Centered

\* zoomTo('contain') has changed the zoom of an instance that was constructed
\* off center, and centered it.
ContainFromOffCenter ==
    /\ ~options.center /\ ops = 1
    /\ last.op = "zoomTo" /\ input[1] = ZoomString("contain")
    /\ fired[1].pass.zoom # zoom
    /\ Centered

\* The last operation was panTo(p.x, p.y) for the pan position p that getPan()
\* reported before it (unprimed: before the call).
PannedToGetPan ==
    /\ last'.op = "panTo"
    /\ input'[1] = getPanX(This, FALSE) /\ input'[2] = getPanY(This, FALSE)
\* The last operation was a panTo whose offsets the bounds did not move.
PannedUnclamped ==
    /\ last.op = "panTo"
    /\ x = PanPixels(input[1], zoom, wrapperWidth, containerWidth)
    /\ y = PanPixels(input[2], zoom, wrapperHeight, containerHeight)

\* C12: panTo(p.x, p.y) for p = getPan() leaves x, y and zoom as they were;
\* and after a panTo(px, py) whose offsets the bounds clamp did not move,
\* getPan() returns (px, py).
C12_RoundTrip ==
    /\ [][PannedToGetPan => (x' = x /\ y' = y /\ zoom' = zoom)]_vars
    /\ [](PannedUnclamped => getPan(This, FALSE) = [x |-> input[1], y |-> input[2]])

\* C12 witness: panTo(getPan()) was called, with bounds, on an instance that
\* is zoomed and neither centered nor at one of the other panTo arguments.
C12_Witness_PannedBack ==
    /\ last.op = "panTo" /\ options.bounds # "off"
    /\ input = <<getPanX(This, FALSE), getPanY(This, FALSE), TRUE>>
    /\ \A in \in PanToInputs : input # in
    /\ ~Centered /\ zoom # Num(1)

\* The other direction: a panTo(100, 25) that the bounds did not move.
PannedThere ==
    /\ PannedUnclamped /\ input[1] = Num(100) /\ input[2] = Num(25)
    /\ getPan(This, FALSE) = [x |-> Num(100), y |-> Num(25)]

\* C13: while blockPan is set, a mousemove / touchmove event changes neither
\* zoom, x, y nor the previous position, and raises no notification.
C13_BlockedMoveSkipped ==
    [][(last'.op = "mousemove" /\ blockPan = "true") =>
          /\ zoom' = zoom /\ x' = x /\ y' = y
          /\ previousEvent' = previousEvent
          /\ fired' = <<>>]_vars

\* C13 witness: a move event arrived during a pinch that began after a drag
\* had recorded a previous position; it raised nothing.
C13_Witness_MoveDuringPinch ==
    /\ last.op = "mousemove" /\ blockPan = "true" /\ Len(evCache) = 2
    /\ moveListener /\ previousEvent # NoEvent
    /\ fired = <<>>

\* C14: in a drag without bounds and without a pinch, the press records a
\* previous position and leaves (x, y) alone; every move adds the difference
\* between its page position and the previous position to (x, y) and becomes
\* the previous position; the release clears the previous position.
C14_DragFollowsPointer ==
    [][/\ (last'.op = "mousedown") =>
             (previousEvent' # NoEvent /\ x' = x /\ y' = y)
       /\ (last'.op = "mousemove" /\ options.bounds = "off" /\ blockPan # "true") =>
             /\ x' = Add(x, Sub(previousEvent'.pageX, previousEvent.pageX))
             /\ y' = Add(y, Sub(previousEvent'.pageY, previousEvent.pageY))
       /\ (last'.op = "mouseup") => previousEvent' = NoEvent]_vars

\* The first move of a drag: it was handled (onChange and onPan were raised),
\* there was no previous position, and the offsets are the constructed ones.
FirstMoveAddsNothing ==
    /\ ops = 2 /\ last.op = "mousemove" /\ Len(fired) = 2
    /\ options = initialPanOptions
    /\ previousEvent.pageX = Num(300)
    /\ x = PanPixels(Num(25), zoom, wrapperWidth, containerWidth)
    /\ y = PanPixels(Num(75), zoom, wrapperHeight, containerHeight)

\* C15: the pointer event that takes the cache from 2 entries to 1 clears
\* blockPan, and from then on until the next mousedown / touchstart a
\* mousemove / touchmove event leaves (x, y) unchanged.
C15_NoResumeAfterPinch ==
    [][/\ (Len(evCache) = 2 /\ Len(evCache') = 1) => blockPan' = "false"
       /\ (last'.op = "mousemove" /\ pinchEnded) => (x' = x /\ y' = y)]_vars

\* The five values a pinch update starts from.
PinchBaseline == <<zoomCache, xCache, yCache, pinchDiffCache, touchEventsCenterCache>>
\* The ids of the pointers in the cache.
TrackedIds(cache) == {cache[i].pointerId : i \in 1..Len(cache)}

\* C16: on a constructed instance the pinch baseline changes only in the step that takes the cache from
\* 1 entry to 2 (where the five values are captured together), and the
\* pointers tracked do not change while the cache holds 2 entries or more; so
\* a pinch update always starts from five values captured together for the
\* two pointers in the cache.
C16_BaselineCapturedTogether ==
    [][/\ (phase = "ready" /\ PinchBaseline' # PinchBaseline) =>
             (Len(evCache) = 1 /\ Len(evCache') = 2)
       /\ (Len(evCache) >= 2 /\ Len(evCache') >= 2) =>
             TrackedIds(evCache') = TrackedIds(evCache)]_vars

\* A third pointerdown, four events after the construction at zoom 2, has
\* overwritten the zoomCache of the pinch in progress with the zoom the pinch
\* had reached; pinchDiffCache and touchEventsCenterCache are the captured ones.
ThirdPointerRewritesZoomCache ==
    /\ ops = 4 /\ last.op = "pointerdown" /\ Len(evCache) = 3
    /\ options = initialPanOptions
    /\ zoomCache # Num(2) /\ zoomCache = zoom

\* The offset from the content's center to the point s of the viewport.
OffsetFromCenterX(s) == Sub(Add(x, Mul(containerWidth, Half)), Num(s[1]))
OffsetFromCenterY(s) == Sub(Add(y, Mul(containerHeight, Half)), Num(s[2]))
\* The point s of the viewport lies inside the scaled content rectangle.
InsideContent(s) ==
    /\ Le(MathAbs(OffsetFromCenterX(s)), Mul(Mul(containerWidth, Half), zoom))
    /\ Le(MathAbs(OffsetFromCenterY(s)), Mul(Mul(containerHeight, Half), zoom))
\* a / b with the common factors of the numerators and of the denominators
\* cancelled before the products are taken.
CancelledQuotient(a, b, g, h) ==
    Rat((a[1] \div g) * (b[2] \div h), (a[2] \div h) * (b[1] \div g))
ExactQuotient(a, b) ==
    IF IsFinite(a) /\ IsFinite(b) /\ a[1] # 0 /\ b[1] # 0
    THEN CancelledQuotient(a, b, Gcd(Abs(a[1]), Abs(b[1])), Gcd(a[2], b[2]))
    ELSE Div(a, b)
\* The content coordinate, relative to the content's center, shown at the
\* point s of the viewport at offsets (px, py) and zoom z.
ContentPointAt(s, px, py, z) ==
    <<ExactQuotient(Sub(Sub(Num(s[1]), Mul(containerWidth, Half)), px), z),
      ExactQuotient(Sub(Sub(Num(s[2]), Mul(containerHeight, Half)), py), z)>>

\* C17: a wheel event with bounds off and the cursor s inside the scaled
\* content moves the offsets by the cursor's offset from the content's center
\* times the zoom growth, x' = x + (x + contentWidth/2 - s.x) * (zoom' - zoom)/zoom
\* and the same for y, so the content point under the cursor is the same
\* before and after the event.
C17_WheelAnchored ==
    [][(last'.op = "wheel" /\ options.bounds = "off" /\ InsideContent(input'[3])) =>
          /\ x' = Add(x, Mul(OffsetFromCenterX(input'[3]), Div(Sub(zoom', zoom), zoom)))
          /\ y' = Add(y, Mul(OffsetFromCenterY(input'[3]), Div(Sub(zoom', zoom), zoom)))
          /\ ContentPointAt(input'[3], x', y', zoom') = ContentPointAt(input'[3], x, y, zoom)
      ]_vars

\* A wheel event with deltaY = -120 has zoomed in, without bounds, around a
\* cursor that is inside the content and off its center on both axes.
C17_Witness_ZoomedAtCursor ==
    /\ last.op = "wheel" /\ options.bounds = "off"
    /\ input[1] = -120 /\ Lt(zoom, options.maxZoom)
    /\ InsideContent(input[3])
    /\ OffsetFromCenterX(input[3]) # Num(0) /\ OffsetFromCenterY(input[3]) # Num(0)

\* The midpoint of the two pointers in a cache.
PinchMidpoint(cache) == getTouchEventsCenter(cache[1], cache[2])
\* The offset from the content's center to a midpoint c.
MidpointOffsetX(c) == Sub(Add(x, Mul(containerWidth, Half)), c.clientX)
MidpointOffsetY(c) == Sub(Add(y, Mul(containerHeight, Half)), c.clientY)
MidpointInside(c) ==
    /\ Le(MathAbs(MidpointOffsetX(c)), Mul(Mul(containerWidth, Half), zoom))
    /\ Le(MathAbs(MidpointOffsetY(c)), Mul(Mul(containerHeight, Half), zoom))
\* A pinch update of an instance without bounds that changes the zoom, the
\* midpoint of the two pointers being inside the scaled content.
PinchZoomStep ==
    /\ last'.op = "pointermove" /\ Len(evCache') = 2
    /\ options.bounds = "off" /\ zoom' # zoom
    /\ MidpointInside(PinchMidpoint(evCache'))

\* C18: after a pinch update that changes the zoom, with bounds off and the
\* midpoint inside the scaled content, the offsets are the baseline offsets
\* plus the midpoint's movement since the baseline plus the anchoring term
\* offset * (zoom' - zoom)/zoom of adjustPositionByZoom.
C18_PinchAnchored ==
    [][PinchZoomStep =>
          /\ x' = Add(Add(xCache, Sub(PinchMidpoint(evCache').clientX,
                                      touchEventsCenterCache.clientX)),
                      Mul(MidpointOffsetX(PinchMidpoint(evCache')),
                          Div(Sub(zoom', zoom), zoom)))
          /\ y' = Add(Add(yCache, Sub(PinchMidpoint(evCache').clientY,
                                      touchEventsCenterCache.clientY)),
                      Mul(MidpointOffsetY(PinchMidpoint(evCache')),
                          Div(Sub(zoom', zoom), zoom)))
      ]_vars

\* The square of the distance between the two pointers in a cache.
SquaredDistance(cache) ==
    Add(Mul(Sub(cache[1].pageX, cache[2].pageX), Sub(cache[1].pageX, cache[2].pageX)),
        Mul(Sub(cache[1].pageY, cache[2].pageY), Sub(cache[1].pageY, cache[2].pageY)))
\* A pinch update that follows the capture of the baseline or another pinch
\* update, so that the zoom before it is the one of the two pointers' former
\* distance, and that moves the two pointers further apart.
PinchSpreadStep ==
    /\ phase = "ready" /\ Len(evCache) = 2 /\ last.op \in {"pointerdown", "pointermove"}
    /\ last'.op = "pointermove" /\ Len(evCache') = 2
    /\ Lt(SquaredDistance(evCache), SquaredDistance(evCache'))

\* C19: during a pinch a larger distance between the two tracked pointers
\* never gives a smaller zoom, and gives a larger one while the zoom is below
\* maxZoom (and the new zoom is not the minZoom it was raised to); along the
\* x axis as along the y axis.
C19_PinchZoomMonotone ==
    [][PinchSpreadStep =>
          /\ Le(zoom, zoom')
          /\ (Lt(zoom, options.maxZoom) /\ zoom' # options.minZoom) => Lt(zoom, zoom')
      ]_vars

\* Two pointers went down at (100,100) and (200,100) and moved apart to
\* (80,100) and (220,100), and the zoom is still the baseline zoom.
SpreadAlongXKeepsZoom ==
    /\ ops = 4 /\ last.op = "pointermove" /\ Len(evCache) = 2
    /\ evCache[1].pageX = Num(80) /\ evCache[2].pageX = Num(220)
    /\ evCache[1].pageY = Num(100) /\ evCache[2].pageY = Num(100)
    /\ pinchDiffCache = Num(0)
    /\ zoom = zoomCache

\* 1 - sign(d) * min(0.25, |speed * d / 128|) for an integer d.
IntSign(d) == IF d > 0 THEN 1 ELSE IF d < 0 THEN -1 ELSE 0
FactorOf(d, speed) ==
    Sub(Num(1), Mul(Num(IntSign(d)),
                    MathMin(Rat(1, 4), MathAbs(Div(Mul(speed, Num(d)), Num(128))))))
\* The delta of a wheel event <<deltaY, deltaMode, position>>: deltaY, in
\* line and page mode times 100.
DeltaOf(w) == IF w[2] > 0 THEN w[1] * 100 ELSE w[1]
\* What a wheel step does to the zoom, given the factor.
WheelZoomBy(factor) ==
    /\ Le(Rat(3, 4), factor) /\ Le(factor, Rat(5, 4))
    /\ zoom' = Clamp(Mul(zoom, factor), options.minZoom, options.maxZoom)
\* The direction of a wheel step with the event w.
WheelDirection(w) ==
    /\ w[1] < 0 => (Le(zoom, zoom') /\ (Lt(zoom, options.maxZoom) => Lt(zoom, zoom')))
    /\ w[1] > 0 => Le(zoom', zoom)
    /\ w[1] = 0 => zoom' = zoom

\* C20 as stated: every wheel event multiplies the zoom by
\* 1 - sign(deltaY) * min(0.25, |zoomSpeedWheel * deltaY / 128|), a factor in
\* [0.75, 1.25], and clamps the product to [minZoom, maxZoom]; a negative
\* deltaY never decreases the zoom and increases it below maxZoom, a positive
\* one never increases it, and deltaY = 0 leaves it unchanged.
C20_WheelFactorOfDeltaY ==
    [][last'.op = "wheel" =>
          /\ WheelZoomBy(FactorOf(input'[1], options.zoomSpeedWheel))
          /\ WheelDirection(input')
      ]_vars

\* C20 amended: the same with the delta the handler uses, deltaY in pixel mode
\* and 100 * deltaY when deltaMode > 0.
C20_WheelFactor ==
    [][last'.op = "wheel" =>
          /\ WheelZoomBy(FactorOf(DeltaOf(input'), options.zoomSpeedWheel))
          /\ WheelDirection(input')
      ]_vars

\* A wheel event with deltaY = -120 in pixel mode has taken the zoom from 2
\* to 2.5.
C20_Witness_ZoomedIn ==
    /\ last.op = "wheel" /\ ops = 1 /\ input[1] = -120 /\ input[2] = 0
    /\ options = initialPanOptions
    /\ zoom = Rat(5, 2)

\* The step of a pan call <<step, instant>>: panStep when the step is omitted.
StepOf(in) == IF in[1] = Undef THEN options.panStep ELSE in[1]
\* step percent of the zoomed content width and height.
StepWidth(in) == Mul(Mul(containerWidth, zoom), Div(StepOf(in), Hundred))
StepHeight(in) == Mul(Mul(containerHeight, zoom), Div(StepOf(in), Hundred))

\* C21: without bounds, panUp and panDown move y by step percent of the
\* zoomed content height (up: minus, down: plus) and leave x and zoom;
\* panLeft and panRight move x by step percent of the zoomed content width
\* and leave y and zoom; an omitted step is panStep.
C21_PanByStepPercent ==
    [][(options.bounds = "off" /\ last'.op \in {"panUp", "panDown", "panLeft", "panRight"}) =>
          /\ zoom' = zoom
          /\ last'.op = "panUp" => (x' = x /\ y' = Sub(y, StepHeight(input')))
          /\ last'.op = "panDown" => (x' = x /\ y' = Add(y, StepHeight(input')))
          /\ last'.op = "panLeft" => (y' = y /\ x' = Sub(x, StepWidth(input')))
          /\ last'.op = "panRight" => (y' = y /\ x' = Add(x, StepWidth(input')))
      ]_vars

\* The part of C21 on panLeft and panRight alone.
PanSidewaysByStepPercent ==
    [][(options.bounds = "off" /\ last'.op \in {"panLeft", "panRight"}) =>
          /\ zoom' = zoom /\ y' = y
          /\ x' = (IF last'.op = "panLeft" THEN Sub(x, StepWidth(input'))
                   ELSE Add(x, StepWidth(input')))
      ]_vars

\* C22: blockPan is set (the `== true` that setPositionEvent tests) exactly
\* when the pointer cache holds 2 or more entries, and it is false after
\* every pointerup / pointercancel / pointerout / pointerleave that leaves
\* fewer than 2 entries; until its first assignment it is undefined, which
\* the test reads as not set.
C22_BlockPanIffPinching ==
    /\ (blockPan = "true") <=> (Len(evCache) >= 2)
    /\ (last.op = "pointerup" /\ Len(evCache) < 2) => blockPan = "false"

\* One of three tracked pointers has left: two are tracked and blockPan is
\* still set.
C22_Witness_TwoOfThreeLeft ==
    /\ last.op = "pointerup" /\ Len(evCache) = 2 /\ blockPan = "true"

\* A pinch has ended: one pointer is tracked and blockPan is false.
PinchEndedUnblocked ==
    /\ pinchEnded /\ Len(evCache) = 1 /\ blockPan = "false"

====
